---- MODULE Spec2Model ----
(***************************************************************************)
(* check50's command-line front end (src/check50/__main__.py): option      *)
(* resolution (validate_args), the remote result poller (await_results),   *)
(* the run of main() and the process-wide error hook (excepthook).         *)
(*                                                                         *)
(* Five specifications share the variables:                                *)
(*   SpecArgs  validate_args applied to every parsed namespace             *)
(*   SpecPoll  await_results called with pings = N                         *)
(*   SpecInstall  install_dependencies called with every dependency list   *)
(*   SpecHook  excepthook called any number of times                       *)
(*   Spec      one invocation of main(), from parse_args to process exit   *)
(***************************************************************************)
EXTENDS Integers, Sequences, FiniteSets

VARIABLES
    pc,          \* position of the thread of control
    raw,         \* history: the namespace validate_args was given (SpecArgs)
    args,        \* the namespace object (validate_args mutates it in place)
    warnings,    \* LOGGER.warning calls, in order
    logging,     \* what setup_logging configured
    pings,       \* await_results' parameter
    attempt,     \* iterations of "for _i in range(pings)" started
    requests,    \* requests.get calls issued
    sleeps,      \* time.sleep calls made
    results,     \* await_results' local "results" (last decoded body)
    notReady,    \* history: responses so far that were "not ready"
    ret,         \* await_results' return value
    exc,         \* the exception in flight, once one is raised
    hook,        \* attributes of the excepthook function object
    emitted,     \* error representations written by excepthook, in order
    exitStatus,  \* the process's exit status, once it has exited
    payload,     \* main's local "results": the result payload
    tag_hash,    \* main's local "tag_hash" (bound on the remote path only)
    effects,     \* history: the external steps main has performed
    sinkOpens,   \* history: times args.output_file was opened for writing
    rendered,    \* what the rendering loop has written, in order
    plan,        \* history: the namespace as it was when the hook was set
    similar,     \* history: what lib50.get_local_slugs returned
    sinkOpen,    \* whether the file args.output_file names is open for writing
    inst         \* install_dependencies: its arguments and what it has done

pollVars == <<pings, attempt, requests, sleeps, results, notReady, ret>>
argVars  == <<raw, args, warnings, logging>>
hookVars == <<hook, emitted, exitStatus>>
mainVars == <<payload, tag_hash, effects, sinkOpens, rendered, plan, similar, sinkOpen, inst>>
vars == <<pc, raw, args, warnings, logging, pings, attempt, requests, sleeps,
          results, notReady, ret, exc, hook, emitted, exitStatus,
          payload, tag_hash, effects, sinkOpens, rendered, plan,
          similar, sinkOpen, inst>>

(***************************************************************************)
(* Bounds of the model.                                                    *)
(***************************************************************************)
MaxPings == 3
MaxOutputs == 3
MaxSimilar == 4
MaxDeps == 3

(***************************************************************************)
(* Program constants.                                                      *)
(***************************************************************************)
DefaultPings == 45
DefaultSleep == 2
ShownSlugs == 3

(***************************************************************************)
(* Exceptions.  cls is the class, at the source line of the raise, payload *)
(* the "payload" attribute (RemoteCheckError sets it), msg the parts of    *)
(* the message where the program composes it.                              *)
(***************************************************************************)
NoPayload == [has |-> FALSE]
NoExc == [cls |-> "none", at |-> 0, payload |-> NoPayload, msg |-> <<>>]

\* class RemoteCheckError(internal.Error): payload = {"remote_json": remote_json}
RemoteCheckError(remote_json, line) ==
    [cls |-> "RemoteCheckError", at |-> line,
     payload |-> [has |-> TRUE, remote_json |-> remote_json], msg |-> <<>>]

\* internal.Error(msg): a domain error with a message and no payload
InternalError(line) ==
    [cls |-> "Error", at |-> line, payload |-> NoPayload, msg |-> <<>>]

(***************************************************************************)
(* await_results                                                           *)
(***************************************************************************)
C50None == [present |-> FALSE, error |-> FALSE, slug |-> "", results |-> "", version |-> ""]
C50Error == [present |-> TRUE, error |-> TRUE, slug |-> "", results |-> "", version |-> ""]
C50Ok == [present |-> TRUE, error |-> FALSE, slug |-> "s", results |-> "r", version |-> "v"]

NoResults ==
    [seq |-> 0, status |-> 0, received_at |-> "null", check50 |-> C50None, tag_hash |-> ""]

\* The bodies the results endpoint answers with.  seq is the number of the
\* request the response answers.
Responses(n) ==
    { [seq |-> n, status |-> 404, received_at |-> "null", check50 |-> C50None, tag_hash |-> ""],
      [seq |-> n, status |-> 500, received_at |-> "null", check50 |-> C50None, tag_hash |-> ""],
      [seq |-> n, status |-> 200, received_at |-> "null", check50 |-> C50None, tag_hash |-> ""] }
    \cup
    { [seq |-> n, status |-> 200, received_at |-> "ts", check50 |-> c, tag_hash |-> "tag"] :
        c \in {C50None, C50Error, C50Ok} }

\* for _i in range(pings): another iteration starts
LoopContinuesOffByOne(i, n) == i <= n
LoopContinues(i, n) == i < n

\* if res.status_code not in [404, 200]
IsErrorStatusRetries500(status) == status \notin {404, 200, 500}
IsErrorStatus(status) == status \notin {404, 200}

\* if res.status_code == 200 and results["received_at"] is not None
IsReadyIgnoresTimestamp(res) == res.status = 200
IsReady(res) == res.status = 200 /\ res.received_at # "null"

\* Lines 235-247: what await_results does with the body it left the loop on.
FinishIgnoresErrorField(res) ==
    IF ~res.check50.present
        THEN [pc |-> "raised", exc |-> RemoteCheckError(res, 236), ret |-> <<>>]
    ELSE [pc |-> "returned", exc |-> NoExc,
          ret |-> <<res.tag_hash,
                    [slug |-> res.check50.slug,
                     results |-> res.check50.results,
                     version |-> res.check50.version]>>]
Finish(res) ==
    IF ~res.check50.present
        THEN [pc |-> "raised", exc |-> RemoteCheckError(res, 236), ret |-> <<>>]
    ELSE IF res.check50.error
        THEN [pc |-> "raised", exc |-> RemoteCheckError(res.check50, 239), ret |-> <<>>]
    ELSE [pc |-> "returned", exc |-> NoExc,
          ret |-> <<res.tag_hash,
                    [slug |-> res.check50.slug,
                     results |-> res.check50.results,
                     version |-> res.check50.version]>>]

\* History only: the body is one the protocol calls "not yet ready".
NotReadyBody(res) ==
    res.status = 404 \/ (res.status = 200 /\ res.received_at = "null")

\* One iteration of the loop, lines 218-228, and on break the rest of the
\* function.
AwaitAttempt ==
    /\ pc = "polling"
    /\ LoopContinues(attempt, pings)
    /\ \E res \in Responses(requests + 1) :
        /\ attempt' = attempt + 1
        /\ requests' = requests + 1
        /\ results' = res
        /\ notReady' = notReady + (IF NotReadyBody(res) THEN 1 ELSE 0)
        /\ IF IsErrorStatus(res.status)
             THEN /\ pc' = "raised"
                  /\ exc' = RemoteCheckError(res, 224)
                  /\ UNCHANGED <<sleeps, ret>>
           ELSE IF IsReady(res)
             THEN /\ pc' = Finish(res).pc
                  /\ exc' = Finish(res).exc
                  /\ ret' = Finish(res).ret
                  /\ UNCHANGED sleeps
           ELSE /\ sleeps' = sleeps + 1
                /\ UNCHANGED <<pc, exc, ret>>
    /\ UNCHANGED <<pings, argVars, hookVars, mainVars>>

\* The loop's else clause, lines 229-233.
AwaitTimeout ==
    /\ pc = "polling"
    /\ ~LoopContinues(attempt, pings)
    /\ pc' = "raised"
    /\ exc' = InternalError(231)
    /\ UNCHANGED <<pollVars, argVars, hookVars, mainVars>>

(***************************************************************************)
(* validate_args                                                           *)
(***************************************************************************)
Channels == {"ansi", "json", "html"}
LevelNames == {"DEBUG", "INFO", "WARNING", "ERROR"}

\* class LogLevel(enum.IntEnum), lines 35-39
LogLevelValue(name) ==
    CASE name = "DEBUG" -> 10
      [] name = "INFO" -> 20
      [] name = "WARNING" -> 30
      [] name = "ERROR" -> 40

\* A command-line string, and a member of LogLevel.
Str(s) == [type |-> "str", v |-> s]
Member(name) == [type |-> "LogLevel", name |-> name, v |-> LogLevelValue(name)]

SeqsUpTo(S, n) == UNION { [1..k -> S] : k \in 1..n }

\* What parse_args can return: -o takes one or more channels (nargs="+"),
\* --log-level one of the member names (type=str.upper, choices).
RawArgs ==
    [dev : BOOLEAN, offline : BOOLEAN, local : BOOLEAN, verbose : BOOLEAN,
     no_download_checks : BOOLEAN, no_install_dependencies : BOOLEAN,
     ansi_log : BOOLEAN, ansi_output : {"unset"},
     log_level : {Str(n) : n \in LevelNames},
     output : SeqsUpTo(Channels, MaxOutputs),
     output_file : {"None", "file"}]

NoArgs ==
    [dev |-> FALSE, offline |-> FALSE, local |-> FALSE, verbose |-> FALSE,
     no_download_checks |-> FALSE, no_install_dependencies |-> FALSE,
     ansi_log |-> FALSE, ansi_output |-> "unset", log_level |-> Str(""),
     output |-> <<>>, output_file |-> "None"]

NoLogging == [configured |-> 0, level |-> "", progress_disabled |-> FALSE]

Contains(s, x) == \E i \in 1..Len(s) : s[i] = x

\* Lines 288-292.
ApplyDevForgetsVerbose(a) ==
    IF a.dev
        THEN [a EXCEPT !.offline = TRUE,
                       !.ansi_output = IF Contains(a.output, "ansi") THEN "True" ELSE @]
        ELSE a
ApplyDev(a) ==
    IF a.dev
        THEN [a EXCEPT !.offline = TRUE, !.verbose = TRUE,
                       !.ansi_output = IF Contains(a.output, "ansi") THEN "True" ELSE @]
        ELSE a

\* Lines 295-298.
ApplyOfflineForgetsInstall(a) ==
    IF a.offline
        THEN [a EXCEPT !.no_download_checks = TRUE, !.local = TRUE]
        ELSE a
ApplyOfflineForgetsLocal(a) ==
    IF a.offline
        THEN [a EXCEPT !.no_install_dependencies = TRUE, !.no_download_checks = TRUE]
        ELSE a
ApplyOffline(a) ==
    IF a.offline
        THEN [a EXCEPT !.no_install_dependencies = TRUE,
                       !.no_download_checks = TRUE, !.local = TRUE]
        ELSE a

\* Line 301: LogLevel.__members__[args.log_level.upper()].  A str has upper();
\* a LogLevel member (an int) has not, and the call raises AttributeError.
ParseLogLevel(l) ==
    IF l.type = "str"
        THEN [raised |-> FALSE, level |-> Member(l.v)]
        ELSE [raised |-> TRUE, level |-> l]

\* Lines 307-315: the warning about flags that mean nothing remotely.
UselessArgs(a) ==
    IF a.local THEN <<>>
    ELSE (IF a.no_download_checks THEN <<"--no-downloads-checks">> ELSE <<>>)
         \o (IF a.no_install_dependencies THEN <<"--no-install-dependencies">> ELSE <<>>)

UselessWarning(a) ==
    IF UselessArgs(a) # <<>>
        THEN << [kind |-> "useless", about |-> UselessArgs(a)] >>
        ELSE <<>>

\* Lines 318-325: the loop over args.output, from position i on.
RECURSIVE DedupKeepsLast(_, _, _, _)
DedupKeepsLast(out, i, seen, warned) ==
    IF i > Len(out) THEN [output |-> seen, warnings |-> warned]
    ELSE IF Contains(seen, out[i])
        THEN DedupKeepsLast(out, i + 1,
                            SelectSeq(seen, LAMBDA x : x # out[i]) \o <<out[i]>>,
                            Append(warned, [kind |-> "duplicate", about |-> <<out[i]>>]))
    ELSE DedupKeepsLast(out, i + 1, Append(seen, out[i]), warned)

RECURSIVE Dedup(_, _, _, _)
Dedup(out, i, seen, warned) ==
    IF i > Len(out) THEN [output |-> seen, warnings |-> warned]
    ELSE IF Contains(seen, out[i])
        THEN Dedup(out, i + 1, seen,
                   Append(warned, [kind |-> "duplicate", about |-> <<out[i]>>]))
    ELSE Dedup(out, i + 1, Append(seen, out[i]), warned)

\* Lines 327-331.
ApplyAnsiLog(a) ==
    IF Contains(a.output, "ansi")
        THEN [args |-> IF a.log_level.v <= LogLevelValue("INFO")
                          THEN [a EXCEPT !.ansi_log = TRUE] ELSE a,
              warnings |-> <<>>]
    ELSE IF a.ansi_log
        THEN [args |-> a, warnings |-> << [kind |-> "ansi_log", about |-> <<>>] >>]
    ELSE [args |-> a, warnings |-> <<>>]

\* setup_logging(level), lines 191-209.
SetupLogging(lg, level) ==
    [configured |-> lg.configured + 1, level |-> level.name,
     progress_disabled |-> level.v < LogLevelValue("WARNING")]

\* Lines 288-298 in the order of the source: dev first, then offline.
ImplicationsOfflineFirst(a) == ApplyDev(ApplyOffline(a))
Implications(a) == ApplyOffline(ApplyDev(a))

\* validate_args(args) as a function of the namespace and the logging state:
\* the namespace it leaves, the warnings it logs, and whether it raised.
ValidateArgs(a, lg) ==
    LET a1 == Implications(a)
        lvl == ParseLogLevel(a1.log_level)
    IN  IF lvl.raised
            THEN [raised |-> TRUE, args |-> a1, warnings |-> <<>>, logging |-> lg]
        ELSE
            LET a2 == [a1 EXCEPT !.log_level = lvl.level]
                d  == Dedup(a2.output, 1, <<>>, <<>>)
                a3 == [a2 EXCEPT !.output = d.output]
                al == ApplyAnsiLog(a3)
            IN  [raised |-> FALSE, args |-> al.args,
                 warnings |-> UselessWarning(a2) \o d.warnings \o al.warnings,
                 logging |-> SetupLogging(lg, lvl.level)]

\* main(), line 392: validate_args(args) on the parsed namespace.
Validate ==
    /\ pc = "parsed"
    /\ LET v == ValidateArgs(args, logging)
       IN  /\ args' = v.args
           /\ warnings' = warnings \o v.warnings
           /\ logging' = v.logging
           /\ pc' = IF v.raised THEN "raised" ELSE "validated"
           /\ exc' = IF v.raised
                        THEN [cls |-> "AttributeError", at |-> 301, payload |-> NoPayload, msg |-> <<>>]
                        ELSE exc
    /\ UNCHANGED <<raw, pollVars, hookVars, mainVars>>

(***************************************************************************)
(* excepthook                                                              *)
(***************************************************************************)
\* Lines 131-135: the attributes given to excepthook at import.  "outputs",
\* which the hook reads, is not among them: line 133 sets "output".
NoHook ==
    [verbose |-> TRUE, output |-> "ansi", output_file |-> "None",
     outputs_set |-> FALSE, slug_set |-> FALSE]

\* issubclass(cls, internal.Error) or issubclass(cls, lib50.Error)
IsDomainError(cls) == cls \in {"Error", "RemoteCheckError", "lib50.Error"}

\* list.remove(x): the list without its first x
RemoveNothing(list, x) == list
RECURSIVE Remove(_, _)
Remove(list, x) ==
    IF list = <<>> THEN <<>>
    ELSE IF Head(list) = x THEN Tail(list)
    ELSE <<Head(list)>> \o Remove(Tail(list), x)

\* Lines 80-93: the error document of the json channel.
JsonDocument(e, h) ==
    [channel |-> "json", form |-> "document",
     to |-> IF h.output_file # "None" THEN "file" ELSE "stdout",
     text |-> e.cls, data |-> e.payload, traceback |-> TRUE]

\* Lines 96-111: the one-line message of the ansi and html channels.
Message(channel, e, h) ==
    [channel |-> channel, form |-> "message",
     to |-> IF e.cls = "KeyboardInterrupt" THEN "stdout" ELSE "stderr",
     text |-> IF IsDomainError(e.cls) THEN "str(exc)"
              ELSE IF e.cls = "FileNotFoundError" THEN "not found"
              ELSE IF e.cls = "KeyboardInterrupt" THEN "check cancelled"
              ELSE "Sorry, something's wrong!",
     data |-> IF h.verbose THEN e.payload ELSE NoPayload,
     traceback |-> h.verbose]

\* Lines 78-111: "for output in excepthook.outputs: outputs.remove(output)".
\* outputs is the list being iterated; the list iterator holds a position
\* (idx), so each removal moves the following element under the position
\* just visited.  returned: the hook left through "return" (line 104).
RECURSIVE HookLoop(_, _, _, _, _)
HookLoop(list, idx, em, e, h) ==
    IF idx > Len(list)
        THEN [outputs |-> list, emitted |-> em, returned |-> FALSE, opens |-> 0]
    ELSE
        LET output == list[idx]
            left == Remove(list, output)
        IN  IF output = "json"
                THEN LET r == HookLoop(left, idx + 1, Append(em, JsonDocument(e, h)), e, h)
                     IN  [r EXCEPT !.opens = @ + (IF h.output_file # "None" THEN 1 ELSE 0)]
            ELSE IF IsDomainError(e.cls) \/ e.cls \in {"FileNotFoundError", "KeyboardInterrupt"}
                THEN HookLoop(left, idx + 1, Append(em, Message(output, e, h)), e, h)
            ELSE IF e.cls = "BaseException"
                THEN [outputs |-> left, emitted |-> em, returned |-> TRUE, opens |-> 0]
            ELSE HookLoop(left, idx + 1, Append(em, Message(output, e, h)), e, h)

\* Line 135, sys.excepthook = excepthook: how the interpreter ends the
\* process when the hook returns (line 104) or itself raises instead of
\* reaching sys.exit(1).  CPython exits with status 1; from 3.8 on it ends an
\* unhandled KeyboardInterrupt by SIGINT instead (status 130 in a shell).
InterpreterExit(cls) ==
    IF cls = "KeyboardInterrupt" THEN {"1", "130"} ELSE {"1"}

\* excepthook(cls, exc, tb), lines 74-113, for the exception e.
HookBody(e) ==
    IF ~hook.outputs_set
        THEN \* line 76: excepthook.outputs raises AttributeError
             /\ exitStatus' \in InterpreterExit(e.cls)
             /\ UNCHANGED <<args, emitted, sinkOpens>>
        ELSE LET r == HookLoop(args.output, 1, <<>>, e, hook)
             IN  /\ args' = [args EXCEPT !.output = r.outputs]
                 /\ emitted' = emitted \o r.emitted
                 /\ sinkOpens' = sinkOpens + r.opens
                 /\ IF r.returned
                       THEN exitStatus' \in InterpreterExit(e.cls)
                       ELSE exitStatus' = "1"

\* Line 135: the interpreter calls sys.excepthook with the uncaught
\* exception, and the process ends.
Excepthook ==
    /\ pc = "raised"
    /\ pc' = "exited"
    /\ HookBody(exc)
    /\ UNCHANGED <<raw, warnings, logging, pollVars, exc, hook,
                   payload, tag_hash, effects, rendered, plan,
                   similar, sinkOpen, inst>>

\* The exceptions excepthook tells apart (lines 96-108).
HookExceptions ==
    { [cls |-> c, at |-> 0, payload |-> NoPayload, msg |-> <<>>] :
        c \in {"Error", "lib50.Error", "FileNotFoundError", "KeyboardInterrupt",
               "Exception", "BaseException"} }
    \cup {RemoteCheckError(NoResults, 224)}

\* excepthook called as a function, any number of times, with any exception:
\* the attributes of the function object, excepthook.outputs among them,
\* persist from one call to the next.
CallExcepthook ==
    /\ pc = "hook"
    /\ \E e \in HookExceptions :
        /\ exc' = e
        /\ HookBody(e)
    /\ UNCHANGED <<pc, raw, warnings, logging, pollVars, hook,
                   payload, tag_hash, effects, rendered, plan,
                   similar, sinkOpen, inst>>

(***************************************************************************)
(* install_dependencies                                                    *)
(***************************************************************************)
\* The function's arguments (dependencies, verbose), whether the interpreter
\* runs in a virtualenv (line 153), and what the call has done: req_dir, the
\* temporary directory exists; req_file, the lines of requirements.txt in
\* it; writes, times requirements.txt was written; pip, the check_call
\* invocations in order; reloads, times importlib.reload(site) ran.
NoInst ==
    [dependencies |-> <<>>, verbose |-> FALSE, venv |-> FALSE,
     req_dir |-> FALSE, req_file |-> <<>>, writes |-> 0, pip |-> <<>>, reloads |-> 0]

Packages == {"pkg1", "pkg2"}

\* The dependency lists of a checks package's configuration.
DependencyLists == {<<>>} \cup SeqsUpTo(Packages, MaxDeps)

\* Lines 151-157: the pip command line and the streams it is given.
PipCall(i) ==
    [user |-> ~i.venv, devnull |-> ~i.verbose, requirements |-> i.req_file]

\* Leaving "with tempfile.TemporaryDirectory()" (line 144), by the end of the
\* block or by an exception: the directory and what is in it are removed.
Cleanup(i) == [i EXCEPT !.req_dir = FALSE, !.req_file = <<>>]

\* Lines 151-159: check_call, once, given whether pip exits with status 0.
CheckCallRetries(i, ok) ==
    IF ok
        THEN [pc |-> "reload", exc |-> NoExc,
              inst |-> [i EXCEPT !.pip = Append(@, PipCall(i))]]
    ELSE [pc |-> "raised", exc |-> InternalError(159),
          inst |-> Cleanup([i EXCEPT !.pip = @ \o <<PipCall(i), PipCall(i)>>])]
CheckCall(i, ok) ==
    IF ok
        THEN [pc |-> "reload", exc |-> NoExc,
              inst |-> [i EXCEPT !.pip = Append(@, PipCall(i))]]
    ELSE [pc |-> "raised", exc |-> InternalError(159),
          inst |-> Cleanup([i EXCEPT !.pip = Append(@, PipCall(i))])]

\* Lines 140-149: return at once for an empty list; otherwise create the
\* temporary directory and write requirements.txt, one dependency per line.
InstallBegin ==
    /\ pc = "install"
    /\ IF inst.dependencies = <<>>
          THEN /\ pc' = "installed"
               /\ UNCHANGED inst
          ELSE /\ pc' = "pip"
               /\ inst' = [inst EXCEPT !.req_dir = TRUE,
                                       !.req_file = inst.dependencies,
                                       !.writes = @ + 1]
    /\ UNCHANGED <<argVars, pollVars, exc, hookVars, payload, tag_hash, effects,
                   sinkOpens, rendered, plan, similar, sinkOpen>>

\* Lines 151-159: run pip; a non-zero exit status becomes internal.Error.
InstallPip ==
    /\ pc = "pip"
    /\ \E ok \in BOOLEAN :
        LET r == CheckCall(inst, ok)
        IN  /\ pc' = r.pc
            /\ exc' = r.exc
            /\ inst' = r.inst
    /\ UNCHANGED <<argVars, pollVars, hookVars, payload, tag_hash, effects,
                   sinkOpens, rendered, plan, similar, sinkOpen>>

\* Line 162 and the end of the "with" block.
InstallReload ==
    /\ pc = "reload"
    /\ inst' = Cleanup([inst EXCEPT !.reloads = @ + 1])
    /\ pc' = "installed"
    /\ UNCHANGED <<argVars, pollVars, exc, hookVars, payload, tag_hash, effects,
                   sinkOpens, rendered, plan, similar, sinkOpen>>

(***************************************************************************)
(* main                                                                    *)
(***************************************************************************)
\* The command lines of the invocations followed from start to exit: every
\* combination of the options main() branches on, with --log-level and
\* --ansi-log, which only validate_args and the renderer read, left at their
\* defaults (lines 369 and 375-377).
MainRawArgs ==
    { a \in RawArgs : a.log_level = Str("WARNING") /\ ~a.ansi_log }

\* Line 389, parser.parse_args(), returning a namespace.
ParseArgs ==
    /\ pc = "start"
    /\ \E a \in MainRawArgs : args' = a
    /\ pc' = "parsed"
    /\ UNCHANGED <<raw, warnings, logging, pollVars, exc, hookVars, mainVars>>

\* Line 389, parse_args ending the process itself: --version (lines 384-386)
\* and a successful --logout (lines 262-263) through parser.exit(), status 0;
\* an invalid command line through parser.error(), status 2.
ParserExit ==
    /\ pc = "start"
    /\ \E how \in {"version", "logout", "usage"} :
        /\ exitStatus' = IF how = "usage" THEN "2" ELSE "0"
        /\ effects' = effects \cup {how}
    /\ pc' = "exited"
    /\ UNCHANGED <<argVars, pollVars, exc, hook, emitted,
                   payload, tag_hash, sinkOpens, rendered, plan, similar, sinkOpen, inst>>

\* Lines 257-260: lib50.logout() fails inside parse_args.
LogoutFails ==
    /\ pc = "start"
    /\ pc' = "raised"
    /\ exc' = InternalError(260)
    /\ effects' = effects \cup {"logout"}
    /\ UNCHANGED <<argVars, pollVars, hookVars, payload, tag_hash, sinkOpens, rendered,
                   plan, similar, sinkOpen, inst>>

\* Lines 394-398.  excepthook.outputs is bound to the list args.output
\* itself, not to a copy of it.
SetExcepthook ==
    /\ pc = "validated"
    /\ hook' = [hook EXCEPT !.verbose = args.verbose, !.outputs_set = TRUE,
                            !.output_file = args.output_file, !.slug_set = TRUE]
    /\ plan' = args
    /\ pc' = "dispatch"
    /\ UNCHANGED <<argVars, pollVars, exc, emitted, exitStatus,
                   payload, tag_hash, effects, sinkOpens, rendered,
                   similar, sinkOpen, inst>>

\* Lines 401-402, remote: lib50.push(...), which returns the commit hash or
\* raises a lib50.Error.
Push ==
    /\ pc = "dispatch"
    /\ ~args.local
    /\ effects' = effects \cup {"push"}
    /\ \/ /\ pc' = "polling"
          /\ UNCHANGED exc
       \/ /\ pc' = "raised"
          /\ exc' = [cls |-> "lib50.Error", at |-> 402, payload |-> NoPayload, msg |-> <<>>]
    /\ UNCHANGED <<argVars, pollVars, hookVars, payload, tag_hash, sinkOpens, rendered,
                   plan, similar, sinkOpen, inst>>

\* Line 404: tag_hash, results = await_results(commit_hash, args.slug)
TakeResults ==
    /\ pc = "returned"
    /\ tag_hash' = ret[1]
    /\ payload' = [has |-> TRUE, by |-> "remote", body |-> ret[2]]
    /\ effects' = effects \cup {"poll"}
    /\ pc' = "render"
    /\ UNCHANGED <<argVars, pollVars, exc, hookVars, sinkOpens, rendered,
                   plan, similar, sinkOpen, inst>>

\* The parts a message is concatenated from: fixed texts and slugs.
Text(t) == [part |-> t, slug |-> 0]
Slug(i) == [part |-> "slug", slug |-> i]

\* What lib50.get_local_slugs("check50", similar_to=slug) can return: the
\* n locally known slugs that resemble the given one, best match first.
LocalSlugs == { [i \in 1..n |-> Slug(i)] : n \in 0..MaxSimilar }

\* Line 270, similar_slugs[:3]
FirstThreeTakesAll(list) == list
FirstThree(list) == SubSeq(list, 1, IF Len(list) < ShownSlugs THEN Len(list) ELSE ShownSlugs)

\* Lines 266-281, raise_invalid_slug(slug, offline), given what the
\* similarity search returned: the internal.Error it raises.
RaiseInvalidSlug(found, offline) ==
    LET similar_slugs == FirstThree(found)
        msg1 == <<Text("Could not find checks for")>>
        msg2 == IF similar_slugs # <<>>
                    THEN msg1 \o <<Text("Did you mean:")>> \o similar_slugs
                              \o <<Text("Do refer back to the problem specification")>>
                    ELSE msg1
        msg3 == IF offline THEN Append(msg2, Text("try running without --offline"))
                ELSE msg2
    IN  [InternalError(281) EXCEPT !.msg = msg3]

\* Lines 409-420, local: the checks package is the literal path (--dev) or
\* what lib50.local returns.
ResolveChecks ==
    /\ pc = "dispatch"
    /\ args.local
    /\ effects' = effects \cup
            {IF args.dev THEN "literal_path"
             ELSE IF args.no_download_checks THEN "cached_checks" ELSE "download_checks"}
    /\ \/ /\ pc' = "config"
          /\ UNCHANGED <<exc, similar>>
       \/ \* line 412 (--dev), line 418 (lib50.ConnectionError)
          /\ pc' = "raised"
          /\ exc' = InternalError(IF args.dev THEN 412 ELSE 418)
          /\ UNCHANGED similar
       \/ \* lines 419-420 (lib50.InvalidSlugError)
          /\ ~args.dev
          /\ pc' = "raised"
          /\ \E found \in LocalSlugs :
                /\ similar' = found
                /\ exc' = RaiseInvalidSlug(found, args.no_download_checks)
    /\ UNCHANGED <<argVars, pollVars, hookVars, payload, tag_hash, sinkOpens, rendered,
                   plan, sinkOpen, inst>>

\* Lines 423-432: load the config, compile, install translations and, unless
\* args.no_install_dependencies, install_dependencies (line 159 on failure).
\* Here install_dependencies is the effect "pip" and its two outcomes; its
\* steps are followed in SpecInstall.
Prepare ==
    /\ pc = "config"
    /\ \/ /\ pc' = "run"
          /\ effects' = effects \cup
                (IF args.no_install_dependencies THEN {"config"} ELSE {"config", "pip"})
          /\ UNCHANGED exc
       \/ /\ ~args.no_install_dependencies
          /\ pc' = "raised"
          /\ effects' = effects \cup {"config", "pip"}
          /\ exc' = InternalError(159)
    /\ UNCHANGED <<argVars, pollVars, hookVars, payload, tag_hash, sinkOpens, rendered,
                   plan, similar, sinkOpen, inst>>

\* What a channel that calls no renderer is recorded with.
NoRendering ==
    [has |-> FALSE, by |-> "none", body |-> [slug |-> "", results |-> "", version |-> ""]]

\* Lines 434-457: run the checks and build the payload.
RunChecks ==
    /\ pc = "run"
    /\ effects' = effects \cup {"engine"}
    /\ payload' = [has |-> TRUE, by |-> "local",
                   body |-> [slug |-> "s", results |-> "r", version |-> "v"]]
    /\ pc' = "render"
    /\ UNCHANGED <<argVars, pollVars, exc, hookVars, tag_hash, sinkOpens, rendered,
                   plan, similar, sinkOpen, inst>>

\* Lines 463-464: the sink is args.output_file opened for writing, or stdout.
OpenSink ==
    /\ pc = "render"
    /\ sinkOpens' = sinkOpens + (IF args.output_file # "None" THEN 1 ELSE 0)
    /\ sinkOpen' = (args.output_file # "None")
    /\ pc' = "rendering"
    /\ UNCHANGED <<argVars, pollVars, exc, hookVars, payload, tag_hash, effects, rendered,
                   plan, similar, inst>>

\* Lines 472-485: what the html channel does, given CS50_IDE_TYPE.
HtmlHowIdeFirst(a, ide) ==
    IF ide THEN "c9"
    ELSE IF a.local THEN "file_url"
    ELSE "hosted_url"
HtmlHow(a, ide) ==
    IF ide /\ a.local THEN "c9"
    ELSE IF a.local THEN "file_url"
    ELSE "hosted_url"

\* Line 465, "for output in args.output": the element the iterator yields
\* after n iterations.
NextOutputFromEnd(list, n) == list[Len(list) - n]
NextOutput(list, n) == list[n + 1]

\* Lines 465-485: what one iteration writes.  payload is what the renderer
\* (to_json, to_ansi, to_html) is given, none where no renderer is called;
\* url what the html channel reports (line 485), built from tag_hash on the
\* remote path.
Rendering(output, a, ide, res, tag) ==
    LET how == IF output = "html" THEN HtmlHow(a, ide) ELSE "write"
    IN  [channel |-> output, how |-> how,
         ide |-> (output = "html" /\ ide),
         payload |-> IF how = "hosted_url" THEN NoRendering ELSE res,
         url |-> IF how = "hosted_url" THEN tag
                 ELSE IF how = "file_url" THEN "file://" ELSE "none"]

\* Lines 465-485: one iteration of "for output in args.output".
RenderChannel ==
    /\ pc = "rendering"
    /\ Len(rendered) < Len(args.output)
    /\ \E ide \in BOOLEAN :
        LET r == Rendering(NextOutput(args.output, Len(rendered)), args, ide,
                           payload, tag_hash)
        IN  \/ /\ rendered' = Append(rendered, r)
               /\ UNCHANGED <<pc, exc, sinkOpen>>
            \/ \* line 475: check_call raises CalledProcessError, and the
               \* "with" of line 464 closes the sink on the way out
               /\ r.how = "c9"
               /\ pc' = "raised"
               /\ exc' = [cls |-> "Exception", at |-> 475, payload |-> NoPayload, msg |-> <<>>]
               /\ sinkOpen' = FALSE
               /\ UNCHANGED rendered
    /\ UNCHANGED <<argVars, pollVars, hookVars, payload, tag_hash, effects, sinkOpens,
                   plan, similar, inst>>

\* Lines 464-489: the loop is over, the "with" closes the sink, main()
\* returns and the interpreter exits with status 0.
Exit ==
    /\ pc = "rendering"
    /\ Len(rendered) = Len(args.output)
    /\ pc' = "exited"
    /\ exitStatus' = "0"
    /\ sinkOpen' = FALSE
    /\ UNCHANGED <<argVars, pollVars, exc, hook, emitted, payload, tag_hash, effects,
                   sinkOpens, rendered, plan, similar, inst>>

\* Where the thread of control is while an external call is under way.
Running == {"start", "parsed", "validated", "dispatch", "polling", "returned",
            "config", "run", "render", "rendering"}

\* An exception main() raises nowhere itself: the user's Ctrl-C at any
\* point, or a failure inside a call (a missing file, any other exception, a
\* BaseException that is no Exception).  Raised inside the "with" of line
\* 464, it closes the sink on the way out.
Fail ==
    /\ pc \in Running
    /\ \E cls \in {"KeyboardInterrupt", "FileNotFoundError", "Exception", "BaseException"} :
        /\ cls # "KeyboardInterrupt" => pc \in {"config", "run", "render"}
        /\ exc' = [cls |-> cls, at |-> 0, payload |-> NoPayload, msg |-> <<>>]
    /\ pc' = "raised"
    /\ sinkOpen' = FALSE
    /\ UNCHANGED <<argVars, pollVars, hookVars, payload, tag_hash, effects,
                   sinkOpens, rendered, plan, similar, inst>>

(***************************************************************************)
(* Specifications                                                          *)
(***************************************************************************)
IdlePoll ==
    /\ attempt = 0 /\ requests = 0 /\ sleeps = 0
    /\ results = NoResults /\ notReady = 0 /\ ret = <<>>

IdleArgs ==
    /\ raw = NoArgs /\ args = NoArgs /\ warnings = <<>> /\ logging = NoLogging

IdleHook ==
    /\ hook = NoHook /\ emitted = <<>> /\ exitStatus = "running" /\ exc = NoExc

IdleMain ==
    /\ payload = NoPayload /\ tag_hash = "unbound" /\ effects = {}
    /\ sinkOpens = 0 /\ rendered = <<>> /\ plan = NoArgs
    /\ similar = <<>> /\ sinkOpen = FALSE /\ inst = NoInst

\* await_results(commit_hash, slug, pings=N)
InitPoll ==
    /\ pc = "polling"
    /\ pings \in (1..MaxPings) \cup {DefaultPings}
    /\ IdlePoll /\ IdleArgs /\ IdleHook /\ IdleMain

NextPoll == AwaitAttempt \/ AwaitTimeout

SpecPoll == InitPoll /\ [][NextPoll]_vars

\* validate_args(args) for every namespace parse_args can return
InitArgs ==
    /\ pc = "parsed"
    /\ raw \in RawArgs
    /\ args = raw
    /\ warnings = <<>> /\ logging = NoLogging
    /\ pings = DefaultPings
    /\ IdlePoll /\ IdleHook /\ IdleMain

NextArgs == Validate

SpecArgs == InitArgs /\ [][NextArgs]_vars

\* Lists without repeats, as validate_args leaves args.output (lines 318-325)
NoRepeats(list) == \A i, j \in 1..Len(list) : list[i] = list[j] => i = j

\* excepthook with the attributes main sets at lines 394-398, or before that
InitHook ==
    /\ pc = "hook"
    /\ \E out \in { o \in SeqsUpTo(Channels, MaxOutputs) : NoRepeats(o) },
          v \in BOOLEAN, f \in {"None", "file"}, set \in BOOLEAN :
        /\ args = [NoArgs EXCEPT !.output = out, !.verbose = v, !.output_file = f]
        /\ hook = IF set
                     THEN [NoHook EXCEPT !.verbose = v, !.output_file = f,
                                         !.outputs_set = TRUE, !.slug_set = TRUE]
                     ELSE NoHook
    /\ raw = NoArgs /\ warnings = <<>> /\ logging = NoLogging
    /\ emitted = <<>> /\ exitStatus = "running" /\ exc = NoExc
    /\ pings = DefaultPings
    /\ IdlePoll /\ IdleMain

NextHook == CallExcepthook

SpecHook == InitHook /\ [][NextHook]_vars

\* install_dependencies(dependencies, verbose) for every dependency list
InitInstall ==
    /\ pc = "install"
    /\ \E d \in DependencyLists, v \in BOOLEAN, venv \in BOOLEAN :
            inst = [NoInst EXCEPT !.dependencies = d, !.verbose = v, !.venv = venv]
    /\ pings = DefaultPings
    /\ IdlePoll /\ IdleArgs /\ IdleHook
    /\ payload = NoPayload /\ tag_hash = "unbound" /\ effects = {}
    /\ sinkOpens = 0 /\ rendered = <<>> /\ plan = NoArgs
    /\ similar = <<>> /\ sinkOpen = FALSE

NextInstall == InstallBegin \/ InstallPip \/ InstallReload

SpecInstall == InitInstall /\ [][NextInstall]_vars

\* one invocation of check50
Init ==
    /\ pc = "start"
    \* main() calls await_results with the default, pings = 45; the run of
    \* main is followed with MaxPings attempts, SpecPoll with 45.
    /\ pings = MaxPings
    /\ IdlePoll /\ IdleArgs /\ IdleHook /\ IdleMain

Next ==
    \/ ParseArgs \/ ParserExit \/ LogoutFails
    \/ Validate \/ SetExcepthook
    \/ Push \/ AwaitAttempt \/ AwaitTimeout \/ TakeResults
    \/ ResolveChecks \/ Prepare \/ RunChecks
    \/ OpenSink \/ RenderChannel \/ Exit
    \/ Fail \/ Excepthook

Spec == Init /\ [][Next]_vars

(***************************************************************************)
(* Claims about await_results, checked under SpecPoll.                     *)
(***************************************************************************)
TimedOut == pc = "raised" /\ exc = InternalError(231)

\* C1: with pings = N and every response "not ready" (404, or 200 with a null
\* received_at), the poller issues exactly N requests and then raises the
\* timeout error: the timeout is never raised after fewer than N requests,
\* and no (N+1)-th request is issued.
C1_TimeoutAfterExactlyPings ==
    /\ requests <= pings
    /\ TimedOut => requests = pings /\ notReady = pings
    /\ (notReady = requests /\ requests < pings) =>
            pc = "polling" /\ ENABLED AwaitAttempt /\ ~ENABLED AwaitTimeout
    /\ (notReady = requests /\ requests = pings) =>
            \/ TimedOut
            \/ pc = "polling" /\ ENABLED AwaitTimeout /\ ~ENABLED AwaitAttempt

C1_Witness ==
    TimedOut /\ pings = DefaultPings /\ requests = DefaultPings /\ notReady = DefaultPings

ReadyBody(res) == res.status = 200 /\ res.received_at = "ts"
LeftLoopOnBreak == pc = "returned" \/ (pc = "raised" /\ exc.at \in {236, 239})

\* C2: if attempt k is the first whose response has status 200 and a non-null
\* received_at, all earlier ones being "not ready", polling ends at attempt k
\* on the k-th response: no request follows and no timeout is raised; k may
\* be the last attempt, k = pings.
C2_EndsAtFirstReady ==
    /\ ReadyBody(results) =>
            /\ LeftLoopOnBreak
            /\ ~TimedOut
            /\ results.seq = requests /\ attempt = requests
            /\ notReady = requests - 1
            /\ requests <= pings
            /\ ~ENABLED AwaitAttempt /\ ~ENABLED AwaitTimeout
    /\ LeftLoopOnBreak => ReadyBody(results)

C2_Witness ==
    /\ pc = "returned" /\ pings = DefaultPings
    /\ requests = DefaultPings /\ notReady = DefaultPings - 1
    /\ results.seq = DefaultPings /\ ReadyBody(results)

\* C3: a response whose status is outside {200, 404} at attempt k makes the
\* poller raise RemoteCheckError carrying that body at attempt k, with no
\* further request and no further sleep: such a response is never retried.
C3_ErrorStatusFailsAtOnce ==
    (results.seq > 0 /\ results.status \notin {200, 404}) =>
        /\ pc = "raised"
        /\ exc.cls = "RemoteCheckError"
        /\ exc.payload = [has |-> TRUE, remote_json |-> results]
        /\ results.seq = requests
        /\ sleeps = requests - 1
        /\ ~ENABLED AwaitAttempt /\ ~ENABLED AwaitTimeout

C3_Witness ==
    /\ pc = "raised" /\ results.status = 500 /\ requests = 2 /\ sleeps = 1
    /\ exc.cls = "RemoteCheckError"

\* C11: after polling ends on a ready response, await_results raises
\* RemoteCheckError if the nested check50 result is absent or empty, or holds
\* an "error" field; otherwise it returns the tag hash with a payload made of
\* exactly the nested result's slug, results and version.  It returns no
\* payload in either failing case.
C11_ResultOrRemoteError ==
    ReadyBody(results) =>
        IF ~results.check50.present \/ results.check50.error
            THEN /\ pc = "raised"
                 /\ exc.cls = "RemoteCheckError"
                 /\ exc.payload.has
                 /\ ret = <<>>
            ELSE /\ pc = "returned"
                 /\ exc = NoExc
                 /\ ret = <<results.tag_hash,
                            [slug |-> results.check50.slug,
                             results |-> results.check50.results,
                             version |-> results.check50.version]>>

C11_Witness ==
    /\ ReadyBody(results) /\ results.check50.present /\ results.check50.error
    /\ pc = "raised" /\ exc = RemoteCheckError(results.check50, 239) /\ ret = <<>>
    /\ requests = 2

\* Every response so far was "not ready" and all pings attempts are used up.
AllAttemptsNotReady == notReady = pings /\ requests = pings

\* C20: the poller sleeps only between attempts: with pings = N and interval
\* s there are at most N - 1 sleeps when all N attempts are "not ready" (none
\* follows the last attempt, before the timeout), no sleep follows a ready or
\* an error response, and the total time slept never exceeds N * s.
C20_SleepsOnlyBetweenAttempts ==
    /\ AllAttemptsNotReady => sleeps <= pings - 1
    /\ sleeps <= notReady
    /\ sleeps * DefaultSleep <= pings * DefaultSleep

(***************************************************************************)
(* Claims about validate_args, checked under SpecArgs.                     *)
(***************************************************************************)
\* C6: whatever the options, if --dev is set the resolved plan has
\* offline = true and verbose = true.
C6_DevImpliesOfflineVerbose ==
    (pc = "validated" /\ raw.dev) => args.dev /\ args.offline /\ args.verbose

C6_Witness ==
    /\ pc = "validated" /\ raw.dev /\ ~raw.offline /\ ~raw.verbose
    /\ args.offline /\ args.verbose

\* C7: whatever the options, if offline is true in the resolved plan (given,
\* or implied by --dev) then local, no_download_checks and
\* no_install_dependencies are true in it.
C7_OfflineImpliesLocal ==
    (pc = "validated" /\ args.offline) =>
        args.local /\ args.no_download_checks /\ args.no_install_dependencies

C7_Witness ==
    /\ pc = "validated" /\ raw.dev /\ ~raw.offline /\ ~raw.local
    /\ ~raw.no_download_checks /\ ~raw.no_install_dependencies
    /\ args.local /\ args.no_download_checks /\ args.no_install_dependencies

FirstIndex(s, x) == CHOOSE i \in 1..Len(s) : s[i] = x /\ \A j \in 1..(i - 1) : s[j] # x
Repeats(s) == SelectSeq([i \in 1..Len(s) |-> <<i, s[i]>>],
                        LAMBDA p : FirstIndex(s, p[2]) # p[1])
DuplicateWarnings == SelectSeq(warnings, LAMBDA w : w.kind = "duplicate")

\* C8: for any input channel sequence, the resolved sequence holds each input
\* channel exactly once, in order of first occurrence, is never empty, and
\* one warning is logged per removed duplicate entry; resolution does not
\* fail.
C8_OutputsDeduplicated ==
    /\ pc \in {"parsed", "validated"}
    /\ pc = "validated" =>
        LET o == args.output
            r == raw.output
        IN  /\ Len(o) >= 1
            /\ {o[i] : i \in 1..Len(o)} = {r[i] : i \in 1..Len(r)}
            /\ \A i, j \in 1..Len(o) : i < j =>
                    /\ o[i] # o[j]
                    /\ FirstIndex(r, o[i]) < FirstIndex(r, o[j])
            /\ Len(DuplicateWarnings) = Len(r) - Len(o)
            /\ \A k \in 1..Len(DuplicateWarnings) :
                    DuplicateWarnings[k] =
                        [kind |-> "duplicate", about |-> <<Repeats(r)[k][2]>>]

C8_Witness ==
    /\ pc = "validated"
    /\ raw.output = <<"html", "ansi", "html">>
    /\ args.output = <<"html", "ansi">>
    /\ Len(DuplicateWarnings) = 1

\* The resolved plan with its log level written as a command-line string again.
Renamed(a) == [a EXCEPT !.log_level = Str(@.name)]

\* C9 as stated: validate_args applied to the plan validate_args produced
\* succeeds and yields the same plan.
C9_IdempotentAsStated ==
    pc = "validated" =>
        /\ ~ValidateArgs(args, logging).raised
        /\ ValidateArgs(args, logging).args = args

\* C9, amended: validate_args applied to its own result raises (log_level is
\* by then a LogLevel member, which has no upper()); applied to its result
\* with the log level given by name again it succeeds, yields the same plan
\* and logs no duplicate-channel warning.
C9_IdempotentOnRenamedPlan ==
    pc = "validated" =>
        /\ ValidateArgs(args, logging).raised
        /\ LET v == ValidateArgs(Renamed(args), logging)
           IN  /\ ~v.raised
               /\ v.args = args
               /\ \A i \in 1..Len(v.warnings) : v.warnings[i].kind # "duplicate"

C9_Witness ==
    /\ pc = "validated" /\ raw.dev /\ ~raw.offline /\ ~raw.local
    /\ Len(raw.output) > Len(args.output)
    /\ args # raw
    /\ ValidateArgs(Renamed(args), logging).args = args

\* C10: with --dev and --log-level left at its default (WARNING) the resolved
\* log level is INFO; with --dev and an explicit level it is the given one.
C10_DevElevatesDefaultLogLevel ==
    (pc = "validated" /\ raw.dev) =>
        IF raw.log_level = Str("WARNING")
            THEN args.log_level = Member("INFO")
            ELSE args.log_level = Member(raw.log_level.v)

(***************************************************************************)
(* Claims about the run of main and the error hook, checked under Spec.    *)
(***************************************************************************)
\* The hook ran for a failure raised after lines 394-398 bound its attributes.
FailedAfterPlan == pc = "exited" /\ exc # NoExc /\ hook.outputs_set

\* C4: when an uncaught failure reaches excepthook after the plan is
\* finalized, every channel of the plan's output sequence has its error
\* representation emitted before the process exits: the error document for
\* json, the one-line message for ansi and for html.
C4_EveryChannelServiced ==
    FailedAfterPlan =>
        \A i \in 1..Len(plan.output) :
            \E k \in 1..Len(emitted) :
                /\ emitted[k].channel = plan.output[i]
                /\ emitted[k].form = IF plan.output[i] = "json" THEN "document" ELSE "message"

\* The process was ended by the argument parser itself (--version, --logout,
\* a usage error), which is no run of checks.
EndedByParser == pc = "exited" /\ exc = NoExc /\ ~hook.outputs_set

RenderedAll ==
    /\ hook.outputs_set
    /\ Len(rendered) = Len(plan.output)
    /\ \A i \in 1..Len(rendered) : rendered[i].channel = plan.output[i]

\* C5: a run ends with exit status 0 if and only if the payload was rendered
\* to every requested channel, and with exit status 1 on any uncaught
\* failure, whatever its class (domain error, missing file, KeyboardInterrupt,
\* anything else) and however far the run had progressed.
C5_ExitStatus ==
    (pc = "exited" /\ ~EndedByParser) =>
        /\ exitStatus = "0" <=> RenderedAll
        /\ exc # NoExc => exitStatus = "1"

(***************************************************************************)
(* Claims about the local path of main, checked under Spec.                *)
(***************************************************************************)
InvalidSlug == exc.cls = "Error" /\ exc.at = 281

\* C12: on the local path without --dev, an invalid slug raises an
\* internal.Error whose message holds the "Did you mean:" list if and only if
\* the similarity search over the local slugs found at least one slug, and
\* lists the first three found at most; either way the process exits with
\* status 1 and no check has run.
C12_InvalidSlugSuggestions ==
    InvalidSlug =>
        /\ plan.local /\ ~plan.dev
        /\ Contains(exc.msg, Text("Did you mean:")) <=> similar # <<>>
        /\ \A i \in 1..Len(similar) : Contains(exc.msg, similar[i]) <=> i <= ShownSlugs
        /\ "engine" \notin effects /\ ~payload.has
        /\ pc \in {"raised", "exited"}
        /\ pc = "exited" => exitStatus = "1"

C12_Witness ==
    /\ InvalidSlug /\ pc = "exited" /\ exitStatus = "1"
    /\ Len(similar) = 4
    /\ Contains(exc.msg, Text("Did you mean:"))

(***************************************************************************)
(* Claims about install_dependencies, checked under SpecInstall.           *)
(***************************************************************************)
InstallOver == pc \in {"installed", "raised"}

\* C19: install_dependencies with an empty list writes no requirements file
\* and starts no subprocess; with a non-empty list it starts pip exactly once;
\* if pip exits non-zero the call raises internal.Error and site is not
\* reloaded; if pip exits with zero site is reloaded exactly once.  After the
\* call the requirements file no longer exists, on both outcomes.
C19_InstallDependencies ==
    /\ inst.dependencies = <<>> =>
            inst.writes = 0 /\ inst.pip = <<>> /\ ~inst.req_dir /\ pc # "raised"
    /\ Len(inst.pip) <= 1
    /\ inst.dependencies # <<>> /\ InstallOver =>
            /\ Len(inst.pip) = 1
            /\ inst.pip[1].requirements = inst.dependencies
    /\ pc = "raised" => exc = InternalError(159) /\ inst.reloads = 0
    /\ pc = "installed" =>
            inst.reloads = (IF inst.dependencies = <<>> THEN 0 ELSE 1)
    /\ InstallOver => ~inst.req_dir /\ inst.req_file = <<>>

C19_Witness ==
    /\ pc = "raised" /\ exc = InternalError(159)
    /\ inst.writes = 1 /\ Len(inst.pip) = 1 /\ ~inst.req_dir

(***************************************************************************)
(* Claims about rendering, checked under Spec.                             *)
(***************************************************************************)
\* C13: in a run that reaches rendering, one payload has been built, by the
\* local check runner if the plan is local and by push and poll otherwise,
\* never by both; it is rendered once per channel of the plan, in the plan's
\* order, and what each renderer was given is the payload as it still is.
C13_OnePayloadRenderedInOrder ==
    /\ ~payload.has => rendered = <<>>
    /\ payload.has =>
        /\ payload.by = (IF plan.local THEN "local" ELSE "remote")
        /\ "engine" \in effects <=> plan.local
        /\ "poll" \in effects <=> ~plan.local
        /\ "push" \in effects <=> ~plan.local
        /\ Len(rendered) <= Len(plan.output)
        /\ \A i \in 1..Len(rendered) :
            /\ rendered[i].channel = plan.output[i]
            /\ rendered[i].payload \in {payload, NoRendering}
        /\ exitStatus = "0" => Len(rendered) = Len(plan.output)

C13_Witness ==
    /\ exitStatus = "0" /\ ~plan.local
    /\ Len(rendered) = 3
    /\ rendered[1].channel = "json" /\ rendered[2].channel = "html"
    /\ rendered[1].payload = payload /\ rendered[3].payload = payload

\* C14: the html channel.  In a remote run no page is rendered, handed to the
\* IDE or written to a temporary file, whatever CS50_IDE_TYPE is: the channel
\* reports the hosted URL built from the tag hash await_results returned.  In
\* a local run tag_hash is never read: the page is rendered and handed to the
\* IDE's command if CS50_IDE_TYPE is set, else written to a temporary file
\* whose file:// URL is reported.
C14_HtmlChannel ==
    \A i \in 1..Len(rendered) :
        rendered[i].channel = "html" =>
            IF plan.local
                THEN /\ tag_hash = "unbound"
                     /\ rendered[i].payload = payload
                     /\ rendered[i].how = (IF rendered[i].ide THEN "c9" ELSE "file_url")
                     /\ rendered[i].url = (IF rendered[i].ide THEN "none" ELSE "file://")
                ELSE /\ rendered[i].how = "hosted_url"
                     /\ rendered[i].payload = NoRendering
                     /\ ret # <<>> /\ rendered[i].url = ret[1]

C14_Witness ==
    /\ ~plan.local /\ exitStatus = "0"
    /\ \E i \in 1..Len(rendered) :
        /\ rendered[i].channel = "html" /\ rendered[i].ide
        /\ rendered[i].how = "hosted_url" /\ rendered[i].url = tag_hash

(***************************************************************************)
(* Claims about excepthook.                                                *)
(***************************************************************************)
\* C15: excepthook services each pending channel at most once: a channel is
\* removed from excepthook.outputs when it is serviced, so over any number of
\* calls of excepthook no channel's error representation is emitted twice.
\* Checked under SpecHook.
C15_ServicedAtMostOnce ==
    /\ \A i, j \in 1..Len(emitted) :
            emitted[i].channel = emitted[j].channel => i = j
    /\ \A i \in 1..Len(emitted) : ~Contains(args.output, emitted[i].channel)

\* A second call has serviced a channel the first call skipped.
C15_Witness ==
    /\ Len(emitted) = 3
    /\ emitted[1].channel = "ansi" /\ emitted[2].channel = "html"
    /\ emitted[3].channel = "json"
    /\ emitted[3].text # emitted[1].text
    /\ args.output = <<>>

\* C16: at every point of a run, before option resolution has finished too,
\* excepthook has defined values for its channels, verbosity and sink (ansi,
\* verbose, stdout by default).  Hence a failure raised before the plan is
\* final (in parse_args, a failing --logout, validate_args) is reported on the
\* default channel and the process exits with status 1; the hook itself does
\* not fail.  Checked under Spec.
C16_HookDefinedFromTheStart ==
    /\ hook.outputs_set
    /\ (pc = "exited" /\ exc # NoExc /\ plan = NoArgs) =>
            /\ Len(emitted) = 1
            /\ emitted[1].channel = "ansi"
            /\ exitStatus = "1"

(***************************************************************************)
(* Claims about the run of main as a whole, checked under Spec.            *)
(***************************************************************************)
\* C17: in a run with args.output_file set, the file is opened at most once
\* in the whole run and is closed on every way out; when a failure occurs
\* while the results are rendered into it, the error path does not open, and
\* so truncate, it a second time.
C17_SinkOpenedAtMostOnce ==
    /\ sinkOpens <= 1
    /\ sinkOpen => args.output_file # "None" /\ pc = "rendering"
    /\ pc = "exited" => ~sinkOpen

\* What main does on the remote path, and on the local path.
RemoteSteps == {"push", "poll"}
LocalSteps == {"literal_path", "cached_checks", "download_checks", "config", "pip", "engine"}

\* C18: in a run whose resolved plan has offline set (given, or implied by
\* --dev), nothing is pushed, no result is polled, install_dependencies is
\* not called and the checks are not downloaded: they are the literal path
\* with --dev and the cached copy otherwise.  In a run whose plan has local
\* unset, no local step (fetching the checks, installing dependencies,
\* running the checks) is performed.
C18_OfflineStaysOffline ==
    /\ plan.offline =>
        /\ effects \cap (RemoteSteps \cup {"pip", "download_checks"}) = {}
        /\ requests = 0
        /\ "config" \in effects =>
                (IF plan.dev THEN "literal_path" ELSE "cached_checks") \in effects
    /\ (hook.outputs_set /\ ~plan.local) => effects \cap LocalSteps = {}

C18_Witness ==
    /\ plan.dev /\ plan.offline /\ exitStatus = "0"
    /\ {"literal_path", "config", "engine"} \subseteq effects

====
